---- MODULE Spec2Model ----
(***************************************************************************)
(* Model of proxy/src/config.rs: the configuration loader of the proxy.    *)
(*                                                                         *)
(* Text is a sequence of tokens.  A digit, a sign and a URL delimiter      *)
(* (":", "/", "?", "#") is a token of its own; a run of letters (a scheme, *)
(* a host name, a path segment) and a literal IP address is one token.     *)
(* The parsers below work on that token sequence only.                     *)
(***************************************************************************)
EXTENDS Integers, Sequences, FiniteSets, TLC

VARIABLES
    env,      \* the process environment: variable name -> EnvValue
    loaded,   \* result of Config::load_from_env, NotCalled before the call
    s,        \* the argument of Addr::from_str
    shape,    \* the parts the URL text under test was written from
    addr,     \* result of Addr::from_str(s), NotCalled before the call
    ctl       \* result of control_host_and_port_from_env, NotCalled before

vars == <<env, loaded, s, shape, addr, ctl>>

\* ------------------------------------------------------------------ values

None == [some |-> FALSE, val |-> <<>>]
Some(x) == [some |-> TRUE, val |-> x]

Ok(x) == [ok |-> TRUE, val |-> x, err |-> <<>>]
Err(e) == [ok |-> FALSE, val |-> <<>>, err |-> e]

NotCalled == [called |-> FALSE]

\* enum Error
InvalidAddr == [tag |-> "InvalidAddr"]
ControlPlaneConfigError(raw, kind) ==
    [tag |-> "ControlPlaneConfigError", raw |-> raw, kind |-> kind]
InvalidEnvVar(name, value) ==
    [tag |-> "InvalidEnvVar", name |-> name, value |-> value]

\* Environment variables
ENV_EVENT_BUFFER_CAPACITY == "CONDUIT_PROXY_EVENT_BUFFER_CAPACITY"
ENV_METRICS_FLUSH_INTERVAL_SECS == "CONDUIT_PROXY_METRICS_FLUSH_INTERVAL_SECS"
ENV_PRIVATE_LISTENER == "CONDUIT_PROXY_PRIVATE_LISTENER"
ENV_PRIVATE_FORWARD == "CONDUIT_PROXY_PRIVATE_FORWARD"
ENV_PUBLIC_LISTENER == "CONDUIT_PROXY_PUBLIC_LISTENER"
ENV_CONTROL_LISTENER == "CONDUIT_PROXY_CONTROL_LISTENER"
ENV_PRIVATE_CONNECT_TIMEOUT == "CONDUIT_PROXY_PRIVATE_CONNECT_TIMEOUT"
ENV_PUBLIC_CONNECT_TIMEOUT == "CONDUIT_PROXY_PUBLIC_CONNECT_TIMEOUT"
ENV_CONTROL_URL == "CONDUIT_PROXY_CONTROL_URL"
ENV_RESOLV_CONF == "CONDUIT_RESOLV_CONF"

\* Default values
DEFAULT_EVENT_BUFFER_CAPACITY == 10000
DEFAULT_METRICS_FLUSH_INTERVAL_SECS == 10
DEFAULT_PRIVATE_LISTENER ==
    <<"tcp", ":", "/", "/", "127.0.0.1", ":", "4", "1", "4", "0">>
DEFAULT_PUBLIC_LISTENER ==
    <<"tcp", ":", "/", "/", "0.0.0.0", ":", "4", "1", "4", "3">>
DEFAULT_CONTROL_LISTENER ==
    <<"tcp", ":", "/", "/", "0.0.0.0", ":", "4", "1", "9", "0">>
DEFAULT_CONTROL_URL ==
    <<"tcp", ":", "/", "/", "proxy-api.conduit.svc.cluster.local",
      ":", "8", "0", "8", "6">>
DEFAULT_RESOLV_CONF == <<"/", "etc", "/", "resolv.conf">>

\* What env::var finds for a name: nothing, bytes that are not unicode, text.
Absent == [kind |-> "absent", text |-> <<>>]
NotUnicode == [kind |-> "notunicode", text |-> <<>>]
Text(t) == [kind |-> "text", text |-> t]

\* ---------------------------------------------------- str::parse of numbers

Digits == {"0", "1", "2", "3", "4", "5", "6", "7", "8", "9"}

DigitVal(c) ==
    CASE c = "0" -> 0 [] c = "1" -> 1 [] c = "2" -> 2 [] c = "3" -> 3
      [] c = "4" -> 4 [] c = "5" -> 5 [] c = "6" -> 6 [] c = "7" -> 7
      [] c = "8" -> 8 [] c = "9" -> 9

RECURSIVE DecimalValue(_, _)
DecimalValue(t, acc) ==
    IF t = <<>> THEN acc
    ELSE DecimalValue(Tail(t), acc * 10 + DigitVal(Head(t)))

\* <u64 as FromStr>::from_str and <usize as FromStr>::from_str: an optional
\* "+", then one digit or more and nothing else.  (The texts of this model
\* are too short to overflow 64 bits.)
parse_unsigned(t) ==
    LET d == IF t # <<>> /\ Head(t) = "+" THEN Tail(t) ELSE t
    IN  IF d = <<>> \/ \E i \in 1..Len(d) : d[i] \notin Digits
        THEN Err("ParseIntError")
        ELSE Ok(DecimalValue(d, 0))

\* --------------------------------------------------------------- Duration

Duration_from_secs(n) == [secs |-> n, nanos |-> 0]

Duration_from_millis_as_secs(n) == [secs |-> n, nanos |-> 0]

Duration_from_millis(n) ==
    [secs |-> n \div 1000, nanos |-> (n % 1000) * 1000000]

\* ------------------------------------------------------------- url::Url

SchemeWords == {"tcp", "udp", "localhost"}

Ipv4Tokens == {"127.0.0.1", "0.0.0.0", "10.1.2.3"}
Ipv6Tokens == {"[::1]"}
DomainTokens == {"proxy-api.conduit.svc.cluster.local", "localhost"}
\* an IPv6 literal that is never closed
BadHostTokens == {"[::1"}
HostTokens == Ipv4Tokens \cup Ipv6Tokens \cup DomainTokens \cup BadHostTokens

Ipv4Octets(tok) ==
    CASE tok = "127.0.0.1" -> <<127, 0, 0, 1>>
      [] tok = "0.0.0.0" -> <<0, 0, 0, 0>>
      [] tok = "10.1.2.3" -> <<10, 1, 2, 3>>

Ipv6Segments(tok) ==
    CASE tok = "[::1]" -> <<0, 0, 0, 0, 0, 0, 0, 1>>

NoHost == [kind |-> "none", ip |-> <<>>, name |-> ""]

\* url::Host::parse
Host_parse(tok) ==
    IF tok \in Ipv4Tokens
    THEN Ok([kind |-> "ipv4", ip |-> Ipv4Octets(tok), name |-> ""])
    ELSE IF tok \in Ipv6Tokens
    THEN Ok([kind |-> "ipv6", ip |-> Ipv6Segments(tok), name |-> ""])
    ELSE IF tok \in DomainTokens
    THEN Ok([kind |-> "domain", ip |-> <<>>, name |-> tok])
    ELSE Err("InvalidHost")

U16_MAX == 65535

\* The port's digits, read as the parser reads them: -1 once the value passes
\* u16::MAX.
RECURSIVE PortValue(_, _)
PortValue(t, acc) ==
    IF acc > U16_MAX THEN -1
    ELSE IF t = <<>> THEN acc
    ELSE PortValue(Tail(t), acc * 10 + DigitVal(Head(t)))

RECURSIVE DigitPrefixLen(_)
DigitPrefixLen(t) ==
    IF t = <<>> \/ Head(t) \notin Digits THEN 0
    ELSE 1 + DigitPrefixLen(Tail(t))

\* Index of the first token of t that is in S, Len(t) + 1 when there is none.
RECURSIVE FirstIn(_, _)
FirstIn(t, S) ==
    IF t = <<>> \/ Head(t) \in S THEN 1
    ELSE 1 + FirstIn(Tail(t), S)

\* The segments of a path whose leading "/" is already taken: "" stands for
\* an empty segment.
RECURSIVE Segments(_)
Segments(t) ==
    IF t = <<>> THEN <<"">>
    ELSE IF Head(t) = "/" THEN <<"">> \o Segments(Tail(t))
    ELSE IF Len(t) = 1 THEN <<Head(t)>>
    ELSE IF t[2] = "/" THEN <<Head(t)>> \o Segments(SubSeq(t, 3, Len(t)))
    ELSE <<Head(t)>> \o Segments(Tail(t))

\* Dot segments are removed as the path is parsed: "." is dropped, ".." takes
\* the segment before it, and either one at the end leaves an empty segment.
RECURSIVE RemoveDots(_, _)
RemoveDots(segs, out) ==
    IF segs = <<>> THEN out
    ELSE LET seg == Head(segs)
             last == Len(segs) = 1
             popped == IF out = <<>> THEN out ELSE SubSeq(out, 1, Len(out) - 1)
         IN  IF seg = ".."
             THEN RemoveDots(Tail(segs), IF last THEN popped \o <<"">> ELSE popped)
             ELSE IF seg = "."
             THEN RemoveDots(Tail(segs), IF last THEN out \o <<"">> ELSE out)
             ELSE RemoveDots(Tail(segs), out \o <<seg>>)

RECURSIVE JoinSegments(_)
JoinSegments(segs) ==
    IF segs = <<>> THEN <<>>
    ELSE (IF Head(segs) = "" THEN <<"/">> ELSE <<"/", Head(segs)>>)
         \o JoinSegments(Tail(segs))

\* Parser::parse_path_start of url 2: a URL whose scheme is not special keeps
\* an empty path.
parse_path_start_keep_empty(raw) ==
    IF raw = <<>> THEN <<>>
    ELSE JoinSegments(RemoveDots(Segments(Tail(raw)), <<>>))

\* Parser::parse_path_start of url 1: one leading "/" is taken from the input
\* when there is one, a "/" is written in every case, and the segments follow.
\* The path of a URL with an authority is therefore never empty.
parse_path_start(raw) ==
    JoinSegments(RemoveDots(
        Segments(IF raw # <<>> /\ Head(raw) = "/" THEN Tail(raw) ELSE raw),
        <<>>))

\* Query and fragment of what follows the path.
QueryAndFragment(t) ==
    LET hash == FirstIn(t, {"#"})
        beforeHash == SubSeq(t, 1, hash - 1)
    IN  [query |-> IF beforeHash # <<>> /\ Head(beforeHash) = "?"
                   THEN Some(Tail(beforeHash)) ELSE None,
         fragment |-> IF hash <= Len(t)
                      THEN Some(SubSeq(t, hash + 1, Len(t))) ELSE None]

MakeUrl(scheme, host, port, path, rest) ==
    Ok([scheme |-> scheme, host |-> host, port |-> port, path |-> path,
        query |-> QueryAndFragment(rest).query,
        fragment |-> QueryAndFragment(rest).fragment])

\* After "scheme://": the host, then ":" and the port, then the path.
\* The texts of this model name a host after "//"; a port above u16::MAX, a
\* port followed by letters and a host that does not parse fail the parse.
ParseAuthority(scheme, a) ==
    IF a = <<>> \/ Head(a) \notin HostTokens \/ ~Host_parse(Head(a)).ok
    THEN Err("ParseError")
    ELSE
    LET host == Host_parse(Head(a)).val
        after == Tail(a)
        hasColon == after # <<>> /\ Head(after) = ":"
        n == IF hasColon THEN DigitPrefixLen(Tail(after)) ELSE 0
        digits == IF hasColon THEN SubSeq(after, 2, n + 1) ELSE <<>>
        rest == IF hasColon THEN SubSeq(after, n + 2, Len(after)) ELSE after
        pathEnd == FirstIn(rest, {"?", "#"})
    IN  IF rest # <<>> /\ Head(rest) \notin {"/", "?", "#"}
        THEN Err("ParseError")
        ELSE IF PortValue(digits, 0) < 0
        THEN Err("ParseError")
        ELSE MakeUrl(scheme, host,
                     IF digits = <<>> THEN None ELSE Some(PortValue(digits, 0)),
                     parse_path_start(SubSeq(rest, 1, pathEnd - 1)),
                     SubSeq(rest, pathEnd, Len(rest)))

\* Url::parse, with no base URL.  The text must open with a scheme and ":".
\* "//" opens an authority; a single "/" opens a path and the URL has no
\* host; anything else makes a URL that cannot be a base, whose path is the
\* text as it stands and which has no host either.
Url_parse(t) ==
    IF Len(t) < 2 \/ t[1] \notin SchemeWords \/ t[2] # ":"
    THEN Err("ParseError")
    ELSE
    LET scheme == t[1]
        rest == SubSeq(t, 3, Len(t))
        pathEnd == FirstIn(rest, {"?", "#"})
    IN  IF Len(rest) >= 2 /\ rest[1] = "/" /\ rest[2] = "/"
        THEN ParseAuthority(scheme, SubSeq(rest, 3, Len(rest)))
        ELSE IF rest # <<>> /\ Head(rest) = "/"
        THEN MakeUrl(scheme, NoHost, None,
                     parse_path_start(SubSeq(rest, 1, pathEnd - 1)),
                     SubSeq(rest, pathEnd, Len(rest)))
        ELSE MakeUrl(scheme, NoHost, None, SubSeq(rest, 1, pathEnd - 1),
                     SubSeq(rest, pathEnd, Len(rest)))

\* Url::host, Url::port: no scheme of this model has a default port.
Url_host(u) == IF u.host.kind = "none" THEN None ELSE Some(u.host)
Url_port(u) == u.port
Url_port_or_known_default(u) == u.port

\* ------------------------------------------------------------ impl Addr

SocketAddr_new(ip, port) == [ip |-> ip, port |-> port]

\* The closure handed to with_default_port, were it to name a port.
default_port_80(u) == Ok(80)

\* The closure |_| Err(()) handed to with_default_port: no default port.
no_default_port(u) == Err("()")

\* Url::with_default_port(f): the host, or an error when there is none; the
\* port, else the scheme's known default, else f's, else an error.
Url_with_default_port(u) ==
    IF ~Url_host(u).some THEN Err("URL has no host")
    ELSE IF Url_port_or_known_default(u).some
    THEN Ok([host |-> u.host, port |-> Url_port_or_known_default(u).val])
    ELSE IF no_default_port(u).ok
    THEN Ok([host |-> u.host, port |-> no_default_port(u).val])
    ELSE Err("URL has no port number")

\* struct Addr(SocketAddr), and From<Addr> for SocketAddr
Addr(sa) == [sock |-> sa]
SocketAddr_from(a) == a.sock

\* The inner match without the arm for Host::Ipv6.
match_host_and_port_ipv4_only(hp) ==
    IF hp.ok /\ hp.val.host.kind = "ipv4"
    THEN Ok(Addr(SocketAddr_new(hp.val.host.ip, hp.val.port)))
    ELSE Err(InvalidAddr)

\* from_str: the match on the result of with_default_port.
match_host_and_port(hp) ==
    IF hp.ok /\ hp.val.host.kind = "ipv4"
    THEN Ok(Addr(SocketAddr_new(hp.val.host.ip, hp.val.port)))
    ELSE IF hp.ok /\ hp.val.host.kind = "ipv6"
    THEN Ok(Addr(SocketAddr_new(hp.val.host.ip, hp.val.port)))
    ELSE Err(InvalidAddr)

\* from_str: the match on the result of Url::parse and on the scheme.
match_url(parsed) ==
    IF ~parsed.ok THEN Err(InvalidAddr)
    ELSE IF parsed.val.scheme = "tcp"
    THEN match_host_and_port(Url_with_default_port(parsed.val))
    ELSE Err(InvalidAddr)

\* <Addr as FromStr>::from_str
Addr_from_str(t) == match_url(Url_parse(t))

\* ------------------------------------------------------ Environment Source

NOT_UNICODE == <<"<not unicode>">>

\* env_var that takes a value that is not unicode for a variable not set.
env_var_lenient(e, name) ==
    IF e[name].kind = "text" THEN Ok(Some(e[name].text)) ELSE Ok(None)

\* env_var(name)
env_var(e, name) ==
    IF e[name].kind = "text" THEN Ok(Some(e[name].text))
    ELSE IF e[name].kind = "absent" THEN Ok(None)
    ELSE Err(InvalidEnvVar(name, NOT_UNICODE))

\* The parser's own error handed on in place of InvalidEnvVar.
parse_error_handed_on(name, value) == [tag |-> "NotANumber", value |-> value]

\* env_var_parse: the closure of map_err.
parse_error(name, value) == InvalidEnvVar(name, value)

\* str::parse::<T>: <T as FromStr>::from_str for the type T of the field.
str_parse(T, t) ==
    IF T = "Addr" THEN Addr_from_str(t) ELSE parse_unsigned(t)

\* env_var_parse: parse(s).map_err(..)? and Ok(Some(r)), r the parser's result.
map_parsed(name, raw, r) ==
    IF r.ok THEN Ok(Some(r.val)) ELSE Err(parse_error(name, raw))

\* env_var_parse: the match on env_var(name)?, v the result of env_var.
match_env_var(name, v, T) ==
    IF ~v.ok THEN v
    ELSE IF v.val.some
    THEN map_parsed(name, v.val.val, str_parse(T, v.val.val))
    ELSE Ok(None)

\* env_var_parse(name, str::parse), T the type the call is inferred at
env_var_parse(e, name, T) == match_env_var(name, env_var(e, name), T)

\* ------------------------------------------------- Control URL Validator

\* Option::unwrap_or
unwrap_or(o, d) == IF o.some THEN o.val ELSE d

\* The checks with the test of the scheme before the test of the host.
check_control_url_scheme_first(str, url) ==
    IF url.scheme # "tcp"
    THEN Err(ControlPlaneConfigError(str, "UnsupportedScheme"))
    ELSE IF ~Url_host(url).some
    THEN Err(ControlPlaneConfigError(str, "MissingHost"))
    ELSE IF ~Url_port(url).some
    THEN Err(ControlPlaneConfigError(str, "MissingPort"))
    ELSE IF url.path # <<"/">>
    THEN Err(ControlPlaneConfigError(str, "PathNotAllowed"))
    ELSE IF url.fragment.some
    THEN Err(ControlPlaneConfigError(str, "FragmentNotAllowed"))
    ELSE Ok([host |-> Url_host(url).val, port |-> Url_port(url).val])

\* The checks without the test of the path.
check_control_url_any_path(str, url) ==
    IF ~Url_host(url).some
    THEN Err(ControlPlaneConfigError(str, "MissingHost"))
    ELSE IF url.scheme # "tcp"
    THEN Err(ControlPlaneConfigError(str, "UnsupportedScheme"))
    ELSE IF ~Url_port(url).some
    THEN Err(ControlPlaneConfigError(str, "MissingPort"))
    ELSE IF url.fragment.some
    THEN Err(ControlPlaneConfigError(str, "FragmentNotAllowed"))
    ELSE Ok([host |-> Url_host(url).val, port |-> Url_port(url).val])

\* control_host_and_port_from_env: the checks on the parsed url, s the text.
check_control_url(str, url) ==
    IF ~Url_host(url).some
    THEN Err(ControlPlaneConfigError(str, "MissingHost"))
    ELSE IF url.scheme # "tcp"
    THEN Err(ControlPlaneConfigError(str, "UnsupportedScheme"))
    ELSE IF ~Url_port(url).some
    THEN Err(ControlPlaneConfigError(str, "MissingPort"))
    ELSE IF url.path # <<"/">>
    THEN Err(ControlPlaneConfigError(str, "PathNotAllowed"))
    ELSE IF url.fragment.some
    THEN Err(ControlPlaneConfigError(str, "FragmentNotAllowed"))
    ELSE Ok([host |-> Url_host(url).val, port |-> Url_port(url).val])

\* control_host_and_port_from_env: Url::parse(&s).map_err(..)?, then the
\* checks.
check_parsed(str, parsed) ==
    IF ~parsed.ok THEN Err(ControlPlaneConfigError(str, "SyntaxError"))
    ELSE check_control_url(str, parsed.val)

\* control_host_and_port_from_env from the text s on.
validate_control_url(str) == check_parsed(str, Url_parse(str))

\* control_host_and_port_from_env: env_var(key)?.unwrap_or_else(default), v
\* the result of env_var.
validate_or_default(v, default) ==
    IF ~v.ok THEN v ELSE validate_control_url(unwrap_or(v.val, default))

\* control_host_and_port_from_env(key, default)
control_host_and_port_from_env(e, key, default) ==
    validate_or_default(env_var(e, key), default)

\* ------------------------------------------------------------ impl Config

\* Option::map(Duration::from_millis)
map_from_millis(o) == IF o.some THEN Some(Duration_from_millis(o.val)) ELSE None

\* What load_from_env reads for each field.
read_fields(e) ==
    [capacity |-> env_var_parse(e, ENV_EVENT_BUFFER_CAPACITY, "usize"),
     flush |-> env_var_parse(e, ENV_METRICS_FLUSH_INTERVAL_SECS, "u64"),
     private_listener |-> env_var_parse(e, ENV_PRIVATE_LISTENER, "Addr"),
     public_listener |-> env_var_parse(e, ENV_PUBLIC_LISTENER, "Addr"),
     control_listener |-> env_var_parse(e, ENV_CONTROL_LISTENER, "Addr"),
     private_forward |-> env_var_parse(e, ENV_PRIVATE_FORWARD, "Addr"),
     public_timeout |-> env_var_parse(e, ENV_PUBLIC_CONNECT_TIMEOUT, "u64"),
     private_timeout |-> env_var_parse(e, ENV_PRIVATE_CONNECT_TIMEOUT, "u64"),
     resolv_conf |-> env_var(e, ENV_RESOLV_CONF),
     control |-> control_host_and_port_from_env(
                     e, ENV_CONTROL_URL, DEFAULT_CONTROL_URL)]

\* The struct literal Config { .. } of load_from_env, every field read.
build_config(r) ==
    [private_listener |->
         [addr |-> unwrap_or(r.private_listener.val,
                             Addr_from_str(DEFAULT_PRIVATE_LISTENER).val)],
     public_listener |->
         [addr |-> unwrap_or(r.public_listener.val,
                             Addr_from_str(DEFAULT_PUBLIC_LISTENER).val)],
     control_listener |->
         [addr |-> unwrap_or(r.control_listener.val,
                             Addr_from_str(DEFAULT_CONTROL_LISTENER).val)],
     private_forward |-> r.private_forward.val,
     public_connect_timeout |-> map_from_millis(r.public_timeout.val),
     private_connect_timeout |-> map_from_millis(r.private_timeout.val),
     resolv_conf_path |-> unwrap_or(r.resolv_conf.val, DEFAULT_RESOLV_CONF),
     control_host_and_port |-> r.control.val,
     event_buffer_capacity |->
         unwrap_or(r.capacity.val, DEFAULT_EVENT_BUFFER_CAPACITY),
     metrics_flush_interval |->
         Duration_from_secs(
             unwrap_or(r.flush.val, DEFAULT_METRICS_FLUSH_INTERVAL_SECS))]

\* The returns of load_from_env with the control URL read first, beside the
\* two fields that are read ahead of the struct literal.
first_error_control_first(r) ==
    IF ~r.control.ok THEN r.control
    ELSE IF ~r.capacity.ok THEN r.capacity
    ELSE IF ~r.flush.ok THEN r.flush
    ELSE IF ~r.private_listener.ok THEN r.private_listener
    ELSE IF ~r.public_listener.ok THEN r.public_listener
    ELSE IF ~r.control_listener.ok THEN r.control_listener
    ELSE IF ~r.private_forward.ok THEN r.private_forward
    ELSE IF ~r.public_timeout.ok THEN r.public_timeout
    ELSE IF ~r.private_timeout.ok THEN r.private_timeout
    ELSE IF ~r.resolv_conf.ok THEN r.resolv_conf
    ELSE Ok(build_config(r))

\* The returns of load_from_env: each `?` returns the error at once; the two
\* lets come first and the fields of the struct literal are evaluated in the
\* order they are written.
first_error_or_config(r) ==
    IF ~r.capacity.ok THEN r.capacity
    ELSE IF ~r.flush.ok THEN r.flush
    ELSE IF ~r.private_listener.ok THEN r.private_listener
    ELSE IF ~r.public_listener.ok THEN r.public_listener
    ELSE IF ~r.control_listener.ok THEN r.control_listener
    ELSE IF ~r.private_forward.ok THEN r.private_forward
    ELSE IF ~r.public_timeout.ok THEN r.public_timeout
    ELSE IF ~r.private_timeout.ok THEN r.private_timeout
    ELSE IF ~r.resolv_conf.ok THEN r.resolv_conf
    ELSE IF ~r.control.ok THEN r.control
    ELSE Ok(build_config(r))

\* Config::load_from_env
load_from_env(e) == first_error_or_config(read_fields(e))

\* ------------------------------------------------------- the environment

\* The variables load_from_env reads, in the order it reads them.
FieldOrder ==
    <<ENV_EVENT_BUFFER_CAPACITY, ENV_METRICS_FLUSH_INTERVAL_SECS,
      ENV_PRIVATE_LISTENER, ENV_PUBLIC_LISTENER, ENV_CONTROL_LISTENER,
      ENV_PRIVATE_FORWARD, ENV_PUBLIC_CONNECT_TIMEOUT,
      ENV_PRIVATE_CONNECT_TIMEOUT, ENV_RESOLV_CONF, ENV_CONTROL_URL>>

EnvVars == {FieldOrder[i] : i \in 1..Len(FieldOrder)}

NumericVars ==
    {ENV_EVENT_BUFFER_CAPACITY, ENV_METRICS_FLUSH_INTERVAL_SECS,
     ENV_PUBLIC_CONNECT_TIMEOUT, ENV_PRIVATE_CONNECT_TIMEOUT}
TimeoutVars == {ENV_PUBLIC_CONNECT_TIMEOUT, ENV_PRIVATE_CONNECT_TIMEOUT}
EndpointVars ==
    {ENV_PRIVATE_LISTENER, ENV_PUBLIC_LISTENER, ENV_CONTROL_LISTENER,
     ENV_PRIVATE_FORWARD}
\* The variables read through env_var_parse.
ParsedVars == NumericVars \cup EndpointVars

\* How many variables the environment sets at once.
MaxSet == 3

\* The values a variable takes when it is set.
Values(v) ==
    CASE v = ENV_EVENT_BUFFER_CAPACITY ->
           <<NotUnicode, Text(<<"0">>), Text(<<"2", "5">>), Text(<<"abc">>),
             Text(<<"-", "1">>)>>
      [] v = ENV_METRICS_FLUSH_INTERVAL_SECS ->
           <<NotUnicode, Text(<<"5">>), Text(<<"+", "7">>), Text(<<>>),
             Text(<<"1", "x">>)>>
      [] v = ENV_PUBLIC_CONNECT_TIMEOUT ->
           <<NotUnicode, Text(<<"0">>), Text(<<"1", "5", "0", "0">>),
             Text(<<"abc">>), Text(<<"-", "1">>)>>
      [] v = ENV_PRIVATE_CONNECT_TIMEOUT ->
           <<NotUnicode, Text(<<"2", "0">>), Text(<<"3", "0", "0", "1">>),
             Text(<<"+">>), Text(<<"1", ".", "5">>)>>
      [] v = ENV_PRIVATE_LISTENER ->
           <<NotUnicode,
             Text(<<"tcp", ":", "/", "/", "10.1.2.3", ":", "8", "0", "8", "0">>),
             Text(<<"tcp", ":", "/", "/", "[::1]", ":", "9", "0", "/", "foo",
                    "#", "frag">>),
             Text(<<"tcp", ":", "/", "/", "localhost", ":", "8", "0">>),
             Text(<<"udp", ":", "/", "/", "10.1.2.3", ":", "5", "3">>)>>
      [] v = ENV_PUBLIC_LISTENER ->
           <<NotUnicode,
             Text(<<"tcp", ":", "/", "/", "0.0.0.0", ":", "8", "0">>),
             Text(<<"tcp", ":", "/", "/", "[::1]", ":", "4", "1", "4", "3", "/">>),
             Text(<<"tcp", ":", "/", "/", "10.1.2.3">>),
             Text(<<"10.1.2.3", ":", "8", "0">>)>>
      [] v = ENV_CONTROL_LISTENER ->
           <<NotUnicode,
             Text(<<"tcp", ":", "/", "/", "10.1.2.3", ":", "4", "1", "9", "0">>),
             Text(<<"tcp", ":", "/", "/", "127.0.0.1", ":", "1">>),
             Text(<<"tcp", ":", "/", "/", "10.1.2.3", ":", "9", "9", "9", "9", "9">>),
             Text(<<"tcp", ":", "/", "foo">>)>>
      [] v = ENV_PRIVATE_FORWARD ->
           <<NotUnicode,
             Text(<<"tcp", ":", "/", "/", "127.0.0.1", ":", "8", "0">>),
             Text(<<"tcp", ":", "/", "/", "[::1]", ":", "8", "0", "8", "0">>),
             Text(<<"localhost", ":", "8", "0">>),
             Text(<<>>)>>
      [] v = ENV_RESOLV_CONF ->
           <<NotUnicode, Text(<<"/", "tmp", "/", "resolv.conf">>), Text(<<>>),
             Text(<<"abc">>), Text(<<"0">>)>>
      [] v = ENV_CONTROL_URL ->
           <<NotUnicode,
             Text(<<"tcp", ":", "/", "/", "localhost", ":", "8", "0", "8", "6", "/">>),
             Text(<<"tcp", ":", "/", "/", "10.1.2.3", ":", "8", "0">>),
             Text(<<"tcp", ":", "/", "/", "localhost", "/", "foo", "#", "frag">>),
             Text(<<"udp", ":", "/", "foo">>)>>

ChoiceIdx == 1..5

NoEnv == [v \in EnvVars |-> Absent]

\* --------------------------------------------------- URL texts under test

NoShape ==
    [kind |-> "none", scheme |-> "", slashes |-> 0, host |-> "", port |-> <<>>,
     path |-> <<>>, query |-> <<>>, frag |-> <<>>, junk |-> <<>>]

\* scheme://host[:port][path][?query][#fragment]
AuthorityShapes ==
    [kind : {"url"}, scheme : {"tcp", "udp"}, slashes : {2},
     host : {"10.1.2.3", "[::1]", "localhost"},
     port : {<<>>, <<"8", "0">>, <<"8", "0", "8", "6">>},
     path : {<<>>, <<"/">>, <<"/", "foo">>, <<"/", ".">>},
     query : {<<>>, <<"?", "q">>},
     frag : {<<>>, <<"#", "frag">>},
     junk : {<<>>}]

\* scheme:/path and scheme:rest, which have no host
HostlessShapes ==
    [kind : {"url"}, scheme : {"tcp", "udp"}, slashes : {1}, host : {""},
     port : {<<>>}, path : {<<"/">>, <<"/", "foo">>}, query : {<<>>},
     frag : {<<>>, <<"#", "frag">>}, junk : {<<>>}]
    \cup
    [kind : {"url"}, scheme : {"tcp", "localhost"}, slashes : {0}, host : {""},
     port : {<<>>}, path : {<<"8", "0", "8", "6">>, <<"foo">>}, query : {<<>>},
     frag : {<<>>, <<"#", "frag">>}, junk : {<<>>}]

\* texts that are no URL
JunkShapes ==
    [kind : {"junk"}, scheme : {""}, slashes : {0}, host : {""}, port : {<<>>},
     path : {<<>>}, query : {<<>>}, frag : {<<>>},
     junk : {<<>>,
             <<"abc">>,
             <<"/", "foo">>,
             <<"10.1.2.3", ":", "8", "0">>,
             <<"tcp", ":", "/", "/", "10.1.2.3", ":", "9", "9", "9", "9", "9">>,
             <<"tcp", ":", "/", "/", "[::1", ":", "8", "0">>,
             <<"tcp", ":", "/", "/", "localhost", ":", "8", "0", "foo">>}]

Shapes == AuthorityShapes \cup HostlessShapes \cup JunkShapes

Render(sh) ==
    IF sh.kind = "junk" THEN sh.junk
    ELSE <<sh.scheme, ":">>
         \o (IF sh.slashes = 2 THEN <<"/", "/", sh.host>> ELSE <<>>)
         \o (IF sh.port # <<>> THEN <<":">> \o sh.port ELSE <<>>)
         \o sh.path \o sh.query \o sh.frag

\* ---------------------------------------------------------- state machine

Called(r) == [called |-> TRUE, res |-> r]

\* Config::load_from_env() in an environment that sets at most MaxSet
\* variables.
InitLoad ==
    /\ \E S \in {T \in SUBSET EnvVars : Cardinality(T) <= MaxSet} :
         \E f \in [S -> ChoiceIdx] :
            env = [v \in EnvVars |-> IF v \in S THEN Values(v)[f[v]] ELSE Absent]
    /\ loaded = NotCalled
    /\ s = <<>>
    /\ shape = NoShape
    /\ addr = NotCalled
    /\ ctl = NotCalled

Load ==
    /\ ~loaded.called
    /\ loaded' = Called(load_from_env(env))
    /\ UNCHANGED <<env, s, shape, addr, ctl>>

NextLoad == Load

SpecLoad == InitLoad /\ [][NextLoad]_vars

\* Addr::from_str(s) for a text s.
InitAddr ==
    /\ shape \in Shapes
    /\ s = Render(shape)
    /\ env = NoEnv
    /\ loaded = NotCalled
    /\ addr = NotCalled
    /\ ctl = NotCalled

FromStr ==
    /\ ~addr.called
    /\ addr' = Called(Addr_from_str(s))
    /\ UNCHANGED <<env, loaded, s, shape, ctl>>

NextAddr == FromStr

SpecAddr == InitAddr /\ [][NextAddr]_vars

\* control_host_and_port_from_env(ENV_CONTROL_URL, DEFAULT_CONTROL_URL) where
\* the variable is not set, is not unicode, or holds a text.
InitCtl ==
    /\ \/ /\ shape \in Shapes
          /\ env = [NoEnv EXCEPT ![ENV_CONTROL_URL] = Text(Render(shape))]
       \/ /\ shape = NoShape
          /\ env \in {NoEnv, [NoEnv EXCEPT ![ENV_CONTROL_URL] = NotUnicode]}
    /\ s = <<>>
    /\ loaded = NotCalled
    /\ addr = NotCalled
    /\ ctl = NotCalled

ControlFromEnv ==
    /\ ~ctl.called
    /\ ctl' = Called(control_host_and_port_from_env(
                         env, ENV_CONTROL_URL, DEFAULT_CONTROL_URL))
    /\ UNCHANGED <<env, loaded, s, shape, addr>>

NextCtl == ControlFromEnv

SpecCtl == InitCtl /\ [][NextCtl]_vars

\* ================================================================ claims

\* The result of the call, once made.
LoadDone == loaded.called
LoadOk == loaded.called /\ loaded.res.ok
Config == loaded.res.val

\* A variable's value taken alone: what its own parser makes of it.
FieldValid(v) ==
    \/ env[v].kind = "absent"
    \/ /\ env[v].kind = "text"
       /\ \/ v \in NumericVars /\ parse_unsigned(env[v].text).ok
          \/ v \in EndpointVars /\ Addr_from_str(env[v].text).ok
          \/ v = ENV_RESOLV_CONF
          \/ v = ENV_CONTROL_URL
             /\ control_host_and_port_from_env(env, v, DEFAULT_CONTROL_URL).ok

\* The variable at place i of the reading order is the first that is invalid.
FirstInvalid(i) ==
    /\ ~FieldValid(FieldOrder[i])
    /\ \A j \in 1..(i - 1) : FieldValid(FieldOrder[j])

Place(v) == CHOOSE i \in 1..Len(FieldOrder) : FieldOrder[i] = v

Millis(d) == d.secs * 1000 + d.nanos \div 1000000

\* C1: with no recognized variable set, load_from_env succeeds and the Config
\* holds the documented defaults: listeners 127.0.0.1:4140, 0.0.0.0:4143 and
\* 0.0.0.0:4190, no private forward, no connect timeout, capacity 10000, flush
\* interval 10 s, resolver path /etc/resolv.conf, and the host and port of
\* the default control URL.
C1_DefaultsLoad ==
    (LoadDone /\ env = NoEnv) =>
        /\ loaded.res.ok
        /\ SocketAddr_from(Config.private_listener.addr)
             = [ip |-> <<127, 0, 0, 1>>, port |-> 4140]
        /\ SocketAddr_from(Config.public_listener.addr)
             = [ip |-> <<0, 0, 0, 0>>, port |-> 4143]
        /\ SocketAddr_from(Config.control_listener.addr)
             = [ip |-> <<0, 0, 0, 0>>, port |-> 4190]
        /\ ~Config.private_forward.some
        /\ ~Config.public_connect_timeout.some
        /\ ~Config.private_connect_timeout.some
        /\ Config.event_buffer_capacity = 10000
        /\ Config.metrics_flush_interval = [secs |-> 10, nanos |-> 0]
        /\ Config.resolv_conf_path = <<"/", "etc", "/", "resolv.conf">>
        /\ Config.control_host_and_port.host.kind = "domain"
        /\ Config.control_host_and_port.host.name
             = "proxy-api.conduit.svc.cluster.local"
        /\ Config.control_host_and_port.port = 8086

C1_Witness == LoadOk /\ env = NoEnv

\* The text the validator was given.
CtlText == env[ENV_CONTROL_URL].text

CtlErr(kind) == Err(ControlPlaneConfigError(CtlText, kind))

\* The checks of the validator in the order claimed, each decided from the
\* parts the text was written from; the path is the one the parser reports.
CtlChecks ==
    <<"SyntaxError", "MissingHost", "UnsupportedScheme", "MissingPort",
      "PathNotAllowed", "FragmentNotAllowed">>

CtlViolates(kind) ==
    CASE kind = "SyntaxError" -> shape.kind = "junk"
      [] kind = "MissingHost" -> shape.slashes # 2
      [] kind = "UnsupportedScheme" -> shape.scheme # "tcp"
      [] kind = "MissingPort" -> shape.port = <<>>
      [] kind = "PathNotAllowed" ->
            shape.kind = "url" /\ Url_parse(CtlText).val.path # <<"/">>
      [] kind = "FragmentNotAllowed" -> shape.frag # <<>>

\* C2: the validator reports the first violation in the order syntax, host,
\* scheme, port, path, fragment, with the raw text it validated; a text with
\* no violation is accepted.
C2_FirstViolationInOrder ==
    (ctl.called /\ shape.kind # "none") =>
        /\ \A i \in 1..Len(CtlChecks) :
              (/\ CtlViolates(CtlChecks[i])
               /\ \A j \in 1..(i - 1) : ~CtlViolates(CtlChecks[j]))
              => ctl.res = CtlErr(CtlChecks[i])
        /\ (\A i \in 1..Len(CtlChecks) : ~CtlViolates(CtlChecks[i]))
              => ctl.res.ok

\* udp:/foo#frag has no host, a scheme that is not tcp, no port, a path that
\* is not "/" and a fragment: MissingHost is the one reported.
C2_Witness ==
    /\ ctl.called
    /\ shape.kind = "url" /\ shape.slashes = 1 /\ shape.scheme = "udp"
    /\ shape.path = <<"/", "foo">> /\ shape.frag # <<>>
    /\ ctl.res = CtlErr("MissingHost")

\* A control URL that parses and has a host, the scheme tcp, a port and no
\* fragment.
C3_Case ==
    /\ ctl.called
    /\ shape.kind = "url" /\ shape.slashes = 2 /\ shape.scheme = "tcp"
    /\ shape.port # <<>> /\ shape.frag = <<>>

\* C3 as claimed: in that case the validator succeeds if and only if the
\* path written after the port is exactly "/", and fails with PathNotAllowed
\* for every other path, the empty one included.
C3_OnlySlashAccepted ==
    C3_Case =>
        /\ ctl.res.ok <=> shape.path = <<"/">>
        /\ shape.path # <<"/">> => ctl.res = CtlErr("PathNotAllowed")

\* The paths the parser reports as "/": nothing after the port, "/", "/.".
RootPaths == {<<>>, <<"/">>, <<"/", ".">>}

\* C3 as amended: in that case the validator succeeds, with that host and
\* port, if and only if the path the URL parser reports is "/", which it is
\* for a text with nothing after the port as well; every other path fails
\* with PathNotAllowed.
C3_RootPathAccepted ==
    C3_Case =>
        /\ ctl.res.ok <=> shape.path \in RootPaths
        /\ ctl.res.ok =>
              /\ ctl.res.val.host = Host_parse(shape.host).val
              /\ ctl.res.val.port = DecimalValue(shape.port, 0)
        /\ ~ctl.res.ok => ctl.res = CtlErr("PathNotAllowed")

C3_Witness ==
    /\ C3_Case
    /\ shape.path = <<>> /\ shape.host = "localhost"
    /\ ctl.res.ok /\ ctl.res.val.port = 8086

\* A text tcp://ip:port, whatever follows the port.
C4_Case ==
    /\ addr.called
    /\ shape.kind = "url" /\ shape.slashes = 2 /\ shape.scheme = "tcp"
    /\ shape.host \in Ipv4Tokens \cup Ipv6Tokens
    /\ shape.port # <<>>

\* C4: for tcp://ip:port with a literal IPv4 or IPv6 host and a port,
\* from_str succeeds and the Addr converts to the socket address of that IP
\* and that port, with or without a path, query or fragment after the port.
C4_IpAndPortRoundTrip ==
    C4_Case =>
        /\ addr.res.ok
        /\ SocketAddr_from(addr.res.val).ip
             = (IF shape.host \in Ipv4Tokens THEN Ipv4Octets(shape.host)
                ELSE Ipv6Segments(shape.host))
        /\ SocketAddr_from(addr.res.val).port = DecimalValue(shape.port, 0)

C4_Witness ==
    /\ C4_Case
    /\ shape.host = "[::1]" /\ shape.port = <<"8", "0", "8", "6">>
    /\ shape.path = <<"/", "foo">> /\ shape.frag # <<>>
    /\ addr.res.ok /\ SocketAddr_from(addr.res.val).port = 8086

\* C5: from_str fails with InvalidAddr for a text that is no URL, for a
\* scheme other than tcp, for a host that is a name or is missing, and for a
\* URL with no port; and InvalidAddr is the only error it returns.
C5_InvalidAddrOnly ==
    addr.called =>
        /\ (\/ shape.kind = "junk"
            \/ shape.scheme # "tcp"
            \/ shape.slashes # 2
            \/ shape.host \in DomainTokens
            \/ shape.port = <<>>) => addr.res = Err(InvalidAddr)
        /\ ~addr.res.ok => addr.res.err = InvalidAddr

\* tcp://10.1.2.3 names no port.
C5_Witness ==
    /\ addr.called
    /\ shape.kind = "url" /\ shape.slashes = 2 /\ shape.scheme = "tcp"
    /\ shape.host = "10.1.2.3" /\ shape.port = <<>>
    /\ addr.res = Err(InvalidAddr)

\* A variable read through env_var_parse whose text its parser rejects.
Rejected(v) ==
    /\ v \in ParsedVars
    /\ env[v].kind = "text"
    /\ ~FieldValid(v)

\* C6: a text that the parser of its field rejects makes load_from_env fail;
\* when the variable is the first invalid one in reading order the error is
\* InvalidEnvVar with its name and its raw text, for numbers and endpoints
\* alike; the load returns neither InvalidAddr nor NotANumber.
C6_RejectedTextIsInvalidEnvVar ==
    LoadDone =>
        /\ \A v \in ParsedVars :
              Rejected(v) =>
                 /\ ~loaded.res.ok
                 /\ FirstInvalid(Place(v))
                       => loaded.res = Err(InvalidEnvVar(v, env[v].text))
        /\ ~loaded.res.ok => loaded.res.err.tag \notin {"InvalidAddr", "NotANumber"}

\* Both a number and an endpoint are rejected, each seen alone in some state;
\* here the endpoint: tcp://localhost:80 for the private listener.
C6_Witness ==
    /\ LoadDone
    /\ Rejected(ENV_PRIVATE_LISTENER)
    /\ FirstInvalid(Place(ENV_PRIVATE_LISTENER))
    /\ loaded.res.err.tag = "InvalidEnvVar"
    /\ loaded.res.err.name = ENV_PRIVATE_LISTENER
    /\ loaded.res.err.value = <<"tcp", ":", "/", "/", "localhost", ":", "8", "0">>

NOT_TEXT == <<"<not text>">>

\* C7 as claimed: a variable whose value is not unicode makes the load fail
\* and, when it is the first invalid one in reading order, the error is
\* InvalidEnvVar with its name and the value "<not text>".
C7_NotTextValue ==
    LoadDone =>
        \A v \in EnvVars :
            env[v] = NotUnicode =>
               /\ ~loaded.res.ok
               /\ FirstInvalid(Place(v)) => loaded.res = Err(InvalidEnvVar(v, NOT_TEXT))

\* C7 as amended: the same, with the value "<not unicode>".
C7_NotUnicodeValue ==
    LoadDone =>
        \A v \in EnvVars :
            env[v] = NotUnicode =>
               /\ ~loaded.res.ok
               /\ FirstInvalid(Place(v))
                     => loaded.res = Err(InvalidEnvVar(v, NOT_UNICODE))

\* The private forward, which has no default, is not unicode.
C7_Witness ==
    /\ LoadDone
    /\ env[ENV_PRIVATE_FORWARD] = NotUnicode
    /\ loaded.res = Err(InvalidEnvVar(ENV_PRIVATE_FORWARD, NOT_UNICODE))

TimeoutOf(v) ==
    IF v = ENV_PUBLIC_CONNECT_TIMEOUT THEN Config.public_connect_timeout
    ELSE Config.private_connect_timeout

\* C8: in a Config that loaded, a connect timeout whose variable holds the
\* integer n is present and lasts n milliseconds, and one whose variable is
\* not set is absent.
C8_TimeoutMillisOrAbsent ==
    LoadOk =>
        \A v \in TimeoutVars :
            /\ env[v].kind = "text" =>
                  /\ TimeoutOf(v).some
                  /\ Millis(TimeoutOf(v).val) = parse_unsigned(env[v].text).val
                  /\ TimeoutOf(v).val.nanos % 1000000 = 0
            /\ env[v].kind = "absent" => ~TimeoutOf(v).some

C8_Witness ==
    /\ LoadOk
    /\ env[ENV_PUBLIC_CONNECT_TIMEOUT] = Text(<<"1", "5", "0", "0">>)
    /\ env[ENV_PRIVATE_CONNECT_TIMEOUT] = Absent
    /\ Config.public_connect_timeout = Some([secs |-> 1, nanos |-> 500000000])
    /\ ~Config.private_connect_timeout.some

\* C9: every Config that loaded has an event buffer capacity of at least 1.
C9_CapacityPositive ==
    LoadOk => Config.event_buffer_capacity >= 1

\* The error a variable's value makes when it is the one that stops the load.
FieldError(v) ==
    IF env[v] = NotUnicode THEN InvalidEnvVar(v, NOT_UNICODE)
    ELSE IF v = ENV_CONTROL_URL
    THEN control_host_and_port_from_env(env, v, DEFAULT_CONTROL_URL).err
    ELSE InvalidEnvVar(v, env[v].text)

\* C10: the load returns the error of the first invalid variable in the
\* order capacity, flush interval, private, public and control listener,
\* private forward, public and private connect timeout, resolver path,
\* control URL, and no Config with it; with no invalid variable it succeeds.
C10_FirstInvalidFieldWins ==
    LoadDone =>
        /\ \A i \in 1..Len(FieldOrder) :
              FirstInvalid(i) =>
                 /\ loaded.res = Err(FieldError(FieldOrder[i]))
                 /\ loaded.res.val = <<>>
        /\ (\A i \in 1..Len(FieldOrder) : FieldValid(FieldOrder[i]))
              => loaded.res.ok

\* The control listener and the control URL are invalid at once, and so is
\* a third, later than the first: the control listener's error is returned.
C10_Witness ==
    /\ LoadDone
    /\ ~FieldValid(ENV_CONTROL_LISTENER)
    /\ ~FieldValid(ENV_CONTROL_URL)
    /\ ~FieldValid(ENV_PRIVATE_CONNECT_TIMEOUT)
    /\ FirstInvalid(Place(ENV_CONTROL_LISTENER))
    /\ loaded.res.err.tag = "InvalidEnvVar"
    /\ loaded.res.err.name = ENV_CONTROL_LISTENER

====
